---- MODULE Spec2Model ----
(***************************************************************************)
(* A model of quadtree.c: the point buffer of a node (quadtree_add), the   *)
(* recursive refinement (quadtree_refine), the leaf traversal              *)
(* (quadtree_apply_leaves), the teardown (quadtree_free) and the driver    *)
(* (main) that owns a forest of roots.                                     *)
(*                                                                         *)
(* A coordinate is a C double.  The double v, 0 <= v <= 4, is the pair     *)
(* <<hi, lo>> of its two 28-bit limbs: v = (hi * 2^28 + lo) / 2^56, so     *)
(* 1.0 is <<2^28, 0>> and the doubles next to 1.0 are <<2^28, 16>> above   *)
(* and <<2^28 - 1, 2^28 - 8>> below.  The sum x + (2i-1)*0.25*w is rounded *)
(* to a 53-bit significand, ties to even, as the hardware rounds it.       *)
(* The extents w and h of a node are powers of two (1 for a root, halved   *)
(* at each level, which is exact); the fields w and h hold their base-2    *)
(* logarithm: 0 for a root, -1 for its children.                           *)
(*                                                                         *)
(* The code has no limit on the recursion.  When quadtree_refine recurses  *)
(* into a child that has the centre of its parent and more points than the *)
(* threshold, that call repeats itself: all the points fall into the same  *)
(* quadrant again, whose centre is again the same.  The call does not come *)
(* back (the process dies of stack exhaustion): pc becomes "overflow".     *)
(* malloc and realloc are taken to succeed; their failure path is exit().  *)
(***************************************************************************)
EXTENDS Integers, Sequences, FiniteSets, TLC

VARIABLES forest, mem, pc, calls, pixels, proper, last

vars == <<forest, mem, pc, calls, pixels, proper, last>>

\* ------------------------------------------------------------- constants

\* #define N: chunk size of the point buffer and sampling density
N == 10

\* #define THRESH: density threshold (1.0)
THRESH == 1

\* The forest is WIDTH x HEIGHT roots (20 x 20 in the program, scaled down).
WIDTH == 2

HEIGHT == 1

\* Deepest node on which quadtree_add and quadtree_refine are called
\* directly; roots are at depth 0.  The recursion itself has no bound.
MaxDepth == 1

\* Number of single insertions (Sample, Add) in one run.
MaxCalls == 2

\* Number of pixels sampled whole (SamplePixel) in one run.
MaxPixels == 1

\* The refinement threshold THRESH*N*N.
Threshold == THRESH * N * N

\* -------------------------------------------------------------- doubles

\* Bits of a limb, and of the significand of a double.
LimbBits == 28

Mant == 53

Limb == 2^LimbBits

\* The double 2^e, for -56 <= e <= 1.
Pow2(e) ==
  IF e >= -LimbBits THEN <<2^(LimbBits + e), 0>>
  ELSE <<0, 2^(2 * LimbBits + e)>>

\* a > b, a >= b on doubles.
Gt(a, b) == a[1] > b[1] \/ (a[1] = b[1] /\ a[2] > b[2])

Ge(a, b) == a[1] > b[1] \/ (a[1] = b[1] /\ a[2] >= b[2])

\* The exact sum and difference (a >= b) of two values of the 2^-56 grid.
Plus(a, b) ==
  LET lo == a[2] + b[2]
  IN  IF lo >= Limb THEN <<a[1] + b[1] + 1, lo - Limb>>
      ELSE <<a[1] + b[1], lo>>

Minus(a, b) ==
  LET lo == a[2] - b[2]
  IN  IF lo < 0 THEN <<a[1] - b[1] - 1, lo + Limb>>
      ELSE <<a[1] - b[1], lo>>

RECURSIVE Log2(_)
Log2(n) == IF n < 2 THEN 0 ELSE 1 + Log2(n \div 2)

\* The distance between neighbouring doubles at v, in units of 2^-56: the
\* leading bit of v is bit Log2(hi) + LimbBits, the last bit of its
\* significand lies Mant - 1 bits below.  A value below 2^-4 is exact.
Ulp(v) ==
  LET e == Log2(v[1]) + LimbBits - (Mant - 1)
  IN  IF v[1] = 0 \/ e <= 0 THEN 1 ELSE 2^e

\* The multiple of u nearest to a value of the 2^-56 grid, ties to the even
\* multiple: r is what lies above the multiple below.
RoundTo(v, u, r) ==
  IF r = 0 THEN v
  ELSE IF 2 * r < u \/ (2 * r = u /\ ((v[2] - r) \div u) % 2 = 0)
  THEN <<v[1], v[2] - r>>
  ELSE IF v[2] - r + u = Limb THEN <<v[1] + 1, 0>>
  ELSE <<v[1], v[2] - r + u>>

\* The double nearest to a value of the 2^-56 grid, ties to even.
Round(v) == RoundTo(v, Ulp(v), v[2] % Ulp(v))

\* x + (2*i - 1)*0.25*w for a double x >= 0.25 and w = 2^e: the product is
\* exact, the sum is rounded.  An offset below 2^-56 is less than half the
\* distance from x to either neighbour, so the sum rounds to x.
Offset(x, i, e) ==
  IF e - 2 >= -2 * LimbBits
  THEN Round(IF i = 1 THEN Plus(x, Pow2(e - 2)) ELSE Minus(x, Pow2(e - 2)))
  ELSE x

\* The integer k as a double.
Whole(k) == <<k * Limb, 0>>

Half == Pow2(-1)

\* The double a/4 + u * 2^-52 (u counts the last bits of a double of [1, 2)).
Dbl(a, u) == <<a * 2^(LimbBits - 2), u * 2^(2 * LimbBits - (Mant - 1))>>

Pt(a, u, b, v) == [x |-> Dbl(a, u), y |-> Dbl(b, v)]

\* The values of the point argument of quadtree_add that are explored:
\* (0.5,1.25): on the left edge of root 0, in the driver's range;
\* (0.25,1.25): left of root 0, out of the driver's range;
\* (2.25, 1.25 + 2^-52) and (2.25, 1.25 + 2^-51): two points of the upper
\* right quadrant of root 1, on the vertical centre line of that quadrant,
\* whose y are neighbouring doubles.
Pts ==
  {Pt(2, 0, 5, 0), Pt(1, 0, 5, 0), Pt(9, 0, 5, 1), Pt(9, 0, 5, 2)}

NoPoint == Pt(0, 0, 0, 0)

\* --------------------------------------------------------------- memory

\* A NULL points pointer: no allocation, no element.
NullPoints == [alloc |-> FALSE, cap |-> 0, data |-> <<>>]

\* A NULL child pointer is the empty sequence; a child array has 4 nodes.
NullChild == <<>>

\* The heap: live point buffers, live child arrays, the forest array, and
\* whether a write past the end of a buffer has happened.
InitMem == [bufs |-> 0, kids |-> 0, roots |-> 1, oob |-> FALSE]

\* realloc(q->points, (q->size + N)*sizeof(double2)): a new allocation when
\* the pointer was NULL, the old one resized (contents kept) otherwise.
ReallocPoints(q) ==
  [alloc |-> TRUE, cap |-> q.size + N, data |-> q.points.data]

MemAfterRealloc(q, m) ==
  IF q.points.alloc THEN m ELSE [m EXCEPT !.bufs = m.bufs + 1]

\* ---------------------------------------------------------- quadtree_add

\* The mutant: grows the buffer one element too late.
quadtree_add_late(q, p, m) ==
  LET grow == (q.size % N = 1) \/ ~q.points.alloc
      pts  == IF grow THEN ReallocPoints(q) ELSE q.points
      m1   == IF grow THEN MemAfterRealloc(q, m) ELSE m
      inb  == q.size < pts.cap
  IN  [q |-> [q EXCEPT !.points = [pts EXCEPT !.data = Append(pts.data, p)],
                       !.size = q.size + 1],
       m |-> IF inb THEN m1 ELSE [m1 EXCEPT !.oob = TRUE]]

\* quadtree_add(q, p): grow by N when size % N == 0, store p at index size.
quadtree_add(q, p, m) ==
  LET grow == q.size % N = 0
      pts  == IF grow THEN ReallocPoints(q) ELSE q.points
      m1   == IF grow THEN MemAfterRealloc(q, m) ELSE m
      inb  == q.size < pts.cap
  IN  [q |-> [q EXCEPT !.points = [pts EXCEPT !.data = Append(pts.data, p)],
                       !.size = q.size + 1],
       m |-> IF inb THEN m1 ELSE [m1 EXCEPT !.oob = TRUE]]

\* k successive calls quadtree_add(q, p): the first k \div 2 of them, then
\* the rest.  The calls stop at a write past the end of the buffer, after
\* which the program's behaviour is undefined.
RECURSIVE AddTimes(_, _, _, _)
AddTimes(q, p, m, k) ==
  IF k = 0 THEN [q |-> q, m |-> m]
  ELSE IF k = 1 THEN quadtree_add(q, p, m)
  ELSE LET r == AddTimes(q, p, m, k \div 2)
       IN  IF r.m.oob THEN r ELSE AddTimes(r.q, p, r.m, k - k \div 2)

\* ------------------------------------------------------- quadtree_refine

\* The initialisation of child j*2+i.
ChildInit(q, i, j) ==
  [x |-> Offset(q.x, i, q.w), y |-> Offset(q.y, j, q.h),
   w |-> q.w - 1, h |-> q.h - 1,
   child |-> NullChild, size |-> 0, points |-> NullPoints]

\* The 4 fresh children, child[k] of the program at position k + 1.
NewChildren(q) == [k \in 1..4 |-> ChildInit(q, (k - 1) % 2, (k - 1) \div 2)]

\* The mutant: a point on the centre line goes to the upper quadrant.
Quadrant_ge(q, p) ==
  LET i == IF Ge(p.x, q.x) THEN 1 ELSE 0
      j == IF Ge(p.y, q.y) THEN 1 ELSE 0
  IN  j * 2 + i

\* The quadrant of a point: i = p.x > q.x, j = p.y > q.y, index j*2 + i.
Quadrant(q, p) ==
  LET i == IF Gt(p.x, q.x) THEN 1 ELSE 0
      j == IF Gt(p.y, q.y) THEN 1 ELSE 0
  IN  j * 2 + i

\* The mutant: the loop starts at the second point of the buffer.
RECURSIVE SortInto_skipfirst(_, _, _, _, _)
SortInto_skipfirst(q, ch, m, lo, hi) ==
  IF lo > hi THEN [ch |-> ch, m |-> m]
  ELSE IF lo = hi
  THEN LET p == q.points.data[lo]
           c == (IF Gt(p.x, q.x) THEN 1 ELSE 0)
                + 2 * (IF Gt(p.y, q.y) THEN 1 ELSE 0) + 1
           r == quadtree_add(ch[c], p, m)
       IN  IF lo = 1 THEN [ch |-> ch, m |-> m]
           ELSE [ch |-> [ch EXCEPT ![c] = r.q], m |-> r.m]
  ELSE LET mid == (lo + hi) \div 2
           a   == SortInto_skipfirst(q, ch, m, lo, mid)
       IN  IF a.m.oob THEN a ELSE SortInto_skipfirst(q, a.ch, a.m, mid + 1, hi)

\* The loop that sorts the points of q into the children, for the indices
\* lo..hi of the buffer in ascending order: lo..mid first, then the rest.
\* The loop stops at a write past the end of a buffer.
RECURSIVE SortInto(_, _, _, _, _)
SortInto(q, ch, m, lo, hi) ==
  IF lo > hi THEN [ch |-> ch, m |-> m]
  ELSE IF lo = hi
  THEN LET p == q.points.data[lo]
           c == Quadrant(q, p) + 1
           r == quadtree_add(ch[c], p, m)
       IN  [ch |-> [ch EXCEPT ![c] = r.q], m |-> r.m]
  ELSE LET mid == (lo + hi) \div 2
           a   == SortInto(q, ch, m, lo, mid)
       IN  IF a.m.oob THEN a ELSE SortInto(q, a.ch, a.m, mid + 1, hi)

\* The mutant: never subdivides.
Exceeds_never(q) == FALSE

\* The mutant: the test is >= (a buffer of exactly the threshold subdivides).
Exceeds_ge(q) == q.size >= THRESH * N * N

\* The mutant: any non-empty buffer subdivides.
Exceeds_any(q) == q.size > 0

\* The test q->size > THRESH*N*N.
Exceeds(q) == q.size > Threshold

\* free(q->points); q->points = NULL; q->size = 0, with the children set.
Release(q, ch) ==
  [q EXCEPT !.child = ch, !.points = NullPoints, !.size = 0]

\* The recursive call on child c of q, made right after the points of q
\* were sorted, repeats itself without end: c subdivides and has the centre
\* of q.  Every point of c compares to that centre as it did in q, so all of
\* them go to the same quadrant of c, and the centre of that quadrant is the
\* same sum with a smaller offset, which rounds to the same double.
Repeats(q, c) == Exceeds(c) /\ c.x = q.x /\ c.y = q.y

\* The recursion of quadtree_refine runs on its call stack.  A frame is a
\* call that has reached its loop over the children: the node q, its points
\* moved to the children, and the index k of the loop (child[k - 1] of the
\* program).  A configuration is the stack (innermost call last), the heap,
\* the node ret of the outermost call once it has returned, and the mode:
\* "loop" while calls are active, "done" when the outermost call has
\* returned, "stuck" when a call repeats itself without end.

\* The call on q returns to the frame below it, which goes on to its next
\* child, or to the caller of the outermost call.
Return(q, stack, m) ==
  IF stack = <<>>
  THEN [stack |-> <<>>, m |-> m, ret |-> q, mode |-> "done"]
  ELSE LET f == stack[Len(stack)]
       IN  [stack |-> [stack EXCEPT ![Len(stack)] =
                         [q |-> [f.q EXCEPT !.child[f.k] = q], k |-> f.k + 1]],
            m |-> m, ret |-> q, mode |-> "loop"]

\* A call quadtree_refine(q) up to its loop over the children: the test,
\* the new children, the sorting loop, the release of the points.
\* The call on q reaches its loop over the children: s is the result of the
\* sorting loop, the buffer of q is freed, a frame is pushed.
Enter(q, stack, s) ==
  [stack |-> Append(stack, [q |-> Release(q, s.ch), k |-> 1]),
   m |-> [s.m EXCEPT !.bufs = s.m.bufs - 1], ret |-> q, mode |-> "loop"]

Call(q, stack, m) ==
  IF Exceeds(q)
  THEN Enter(q, stack,
             SortInto(q, NewChildren(q), [m EXCEPT !.kids = m.kids + 1],
                      1, q.size))
  ELSE Return(q, stack, m)

\* One turn of the loop over the children in the innermost call.
Step(c) ==
  LET f == c.stack[Len(c.stack)]
  IN  IF f.k > 4
      THEN Return(f.q, SubSeq(c.stack, 1, Len(c.stack) - 1), c.m)
      ELSE IF Repeats(f.q, f.q.child[f.k]) THEN [c EXCEPT !.mode = "stuck"]
      ELSE Call(f.q.child[f.k], c.stack, c.m)

\* At most n turns: the first n \div 2 of them, then the rest.
RECURSIVE Run(_, _)
Run(c, n) ==
  IF c.mode # "loop" THEN c
  ELSE IF n = 1 THEN Step(c)
  ELSE LET a == Run(c, n \div 2)
       IN  IF a.mode # "loop" THEN a ELSE Run(a, n - n \div 2)

\* Turns until the outermost call has returned or a call repeats itself.
RECURSIVE Finish(_)
Finish(c) == IF c.mode # "loop" THEN c ELSE Finish(Run(c, 2^12))

\* quadtree_refine(q).  The result is the node, the heap, and ok: FALSE when
\* the call does not return.
\* What the caller sees of the final configuration.
Outcome(c) == [q |-> c.ret, m |-> c.m, ok |-> c.mode = "done"]

quadtree_refine(q, m) == Outcome(Finish(Call(q, <<>>, m)))

\* ------------------------------------------------- quadtree_apply_leaves

\* The leaves of q in the order quadtree_apply_leaves visits them.
RECURSIVE quadtree_apply_leaves(_)
quadtree_apply_leaves(q) ==
  IF q.child # NullChild
  THEN quadtree_apply_leaves(q.child[1]) \o quadtree_apply_leaves(q.child[2])
       \o quadtree_apply_leaves(q.child[3]) \o quadtree_apply_leaves(q.child[4])
  ELSE <<q>>

\* --------------------------------------------------------- quadtree_free

\* The calls free(q->child) of quadtree_free(q): one for every node of the
\* subtree that has children.
RECURSIVE Arrays(_)
Arrays(q) ==
  IF q.child # NullChild
  THEN Arrays(q.child[1]) + Arrays(q.child[2])
       + Arrays(q.child[3]) + Arrays(q.child[4]) + 1
  ELSE 0

\* quadtree_free(q): frees the child arrays of the subtree, nothing else.
quadtree_free(q, m) == [m EXCEPT !.kids = m.kids - Arrays(q)]

\* ------------------------------------------------------------ the forest

RootIdx == 0..(WIDTH * HEIGHT - 1)

\* Root n of main, q[n] at position n + 1.
Root(n) ==
  [x |-> Whole((n % WIDTH) + 1), y |-> Whole((n \div WIDTH) + 1),
   w |-> 0, h |-> 0,
   child |-> NullChild, size |-> 0, points |-> NullPoints]

\* A path <<n, k1, .., kd>> names the node q[n].child[k1]...child[kd].
RECURSIVE Descend(_, _)
Descend(q, ks) ==
  IF ks = <<>> THEN q ELSE Descend(q.child[Head(ks) + 1], Tail(ks))

NodeAt(f, path) == Descend(f[Head(path) + 1], Tail(path))

RECURSIVE Replace(_, _, _)
Replace(q, ks, new) ==
  IF ks = <<>> THEN new
  ELSE [q EXCEPT !.child[Head(ks) + 1] = Replace(@, Tail(ks), new)]

SetAt(f, path, new) ==
  [f EXCEPT ![Head(path) + 1] = Replace(@, Tail(path), new)]

\* The paths from q to the nodes of its subtree at most d levels below it.
RECURSIVE SubPaths(_, _)
SubPaths(q, d) ==
  {<<>>} \cup
  (IF q.child = NullChild \/ d = 0 THEN {}
   ELSE UNION {{<<k>> \o s : s \in SubPaths(q.child[k + 1], d - 1)} :
               k \in 0..3})

\* The nodes of the forest down to depth MaxDepth.
Paths(f) ==
  UNION {{<<n>> \o s : s \in SubPaths(f[n + 1], MaxDepth)} : n \in RootIdx}

\* ----------------------------------------------------------------- main

\* The range test of main on a transformed point.
InRange(p) ==
  ~(Gt(Half, p.x) \/ Ge(p.x, Plus(Whole(WIDTH), Half))
    \/ Gt(Half, p.y) \/ Ge(p.y, Plus(Whole(HEIGHT), Half)))

\* (int)(v - 0.5) for a double v >= 0.5: the difference, rounded, truncated.
Index(v) == Round(Minus(v, Half))[1] \div Limb

\* i = point.x - 0.5, j = point.y - 0.5; the root q[j*WIDTH + i].
RootOf(p) == Index(p.y) * WIDTH + Index(p.x)

Init ==
  /\ forest = [n \in 1..(WIDTH * HEIGHT) |-> Root(n - 1)]
  /\ mem = InitMem
  /\ pc = "build"
  /\ calls = 0
  /\ pixels = 0
  /\ proper = TRUE
  /\ last = [op |-> "init", path |-> <<>>, pt |-> NoPoint,
             forest |-> forest, mem |-> mem]

Did(op, path, p) ==
  last' = [op |-> op, path |-> path, pt |-> p, forest |-> forest, mem |-> mem]

\* k passes of the sampling loop of main, each with the transformed point p.
\* Root n and the heap after the calls quadtree_add(&q[n], &point): r.
Added(n, r) ==
  /\ forest' = [forest EXCEPT ![n + 1] = r.q]
  /\ mem' = r.m
  /\ proper' = (proper /\ forest[n + 1].child = NullChild)

\* k passes that have selected root n.
AddTo(n, p, k, op) ==
  /\ Added(n, AddTimes(forest[n + 1], p, mem, k))
  /\ Did(op, <<n>>, p)

Passes(p, k, op) ==
  /\ pc = "build"
  /\ IF InRange(p)
     THEN AddTo(RootOf(p), p, k, op)
     ELSE /\ UNCHANGED <<forest, mem, proper>>
          /\ Did("skip", <<>>, p)
  /\ UNCHANGED pc

\* One pass of the sampling loop of main for a transformed point p.
Sample(p) ==
  /\ calls < MaxCalls
  /\ calls' = calls + 1
  /\ Passes(p, 1, "sample")
  /\ UNCHANGED pixels

\* The N*N passes of the sampling loop for one pixel, all of whose samples
\* are transformed to the same point p.
SamplePixel(p) ==
  /\ pixels < MaxPixels
  /\ pixels' = pixels + 1
  /\ Passes(p, N * N, "pixel")
  /\ UNCHANGED calls

\* The node and the heap after the call: r.
Stored(path, r) ==
  /\ forest' = SetAt(forest, path, r.q)
  /\ mem' = r.m

\* quadtree_add(q, p) on a node of the forest.
Add(path, p) ==
  /\ pc = "build"
  /\ calls < MaxCalls
  /\ calls' = calls + 1
  /\ Stored(path, quadtree_add(NodeAt(forest, path), p, mem))
  /\ proper' = FALSE
  /\ Did("add", path, p)
  /\ UNCHANGED <<pc, pixels>>

\* The call has returned r, or it does not return.
Refined(path, r) ==
  IF r.ok
  THEN /\ forest' = SetAt(forest, path, r.q)
       /\ mem' = r.m
       /\ pc' = pc
  ELSE /\ UNCHANGED <<forest, mem>>
       /\ pc' = "overflow"

\* quadtree_refine(q) on a node of the forest.
Refine(path) ==
  /\ pc = "build"
  /\ Refined(path, quadtree_refine(NodeAt(forest, path), mem))
  /\ proper' = (proper /\ Len(path) = 1)
  /\ Did("refine", path, NoPoint)
  /\ UNCHANGED <<calls, pixels>>

\* The loop of main that refines every root in turn.
RECURSIVE RefineRoots(_, _, _)
\* The call on root n has returned r, or it does not return.
RefineNext(f, n, r) ==
  IF ~r.ok THEN [f |-> f, m |-> r.m, ok |-> FALSE]
  ELSE RefineRoots([f EXCEPT ![n + 1] = r.q], r.m, n + 1)

RefineRoots(f, m, n) ==
  IF n >= WIDTH * HEIGHT THEN [f |-> f, m |-> m, ok |-> TRUE]
  ELSE RefineNext(f, n, quadtree_refine(f[n + 1], m))

\* The loop has refined every root (r), or one call does not return.
RefinedAll(r) ==
  IF r.ok
  THEN /\ forest' = r.f
       /\ mem' = r.m
       /\ pc' = "refined"
  ELSE /\ UNCHANGED <<forest, mem>>
       /\ pc' = "overflow"

RefineAll ==
  /\ pc = "build"
  /\ RefinedAll(RefineRoots(forest, mem, 0))
  /\ Did("refineall", <<>>, NoPoint)
  /\ UNCHANGED <<calls, pixels, proper>>

\* The loop of main that frees every root, then the forest array.
RECURSIVE FreeRoots(_, _, _)
FreeRoots(f, m, n) ==
  IF n >= WIDTH * HEIGHT THEN m
  ELSE FreeRoots(f, quadtree_free(f[n + 1], m), n + 1)

FreeAll ==
  /\ pc = "refined"
  /\ mem' = [FreeRoots(forest, mem, 0) EXCEPT !.roots = 0]
  /\ pc' = "done"
  /\ Did("free", <<>>, NoPoint)
  /\ UNCHANGED <<forest, calls, pixels, proper>>

Next ==
  \/ \E p \in Pts : Sample(p)
  \/ \E p \in Pts : SamplePixel(p)
  \/ \E path \in Paths(forest), p \in Pts : Add(path, p)
  \/ \E path \in Paths(forest) : Refine(path)
  \/ RefineAll
  \/ FreeAll

Spec == Init /\ [][Next]_vars

\* ------------------------------------------------------------ the claims

\* |p - c| <= 2^e / 2 in exact arithmetic: half an extent below 2^-56 is
\* less than the distance between any two values of the grid.
Near(p, c, e) ==
  IF e - 1 >= -2 * LimbBits
  THEN /\ Ge(p, Minus(c, Pow2(e - 1)))
       /\ Ge(Plus(c, Pow2(e - 1)), p)
  ELSE p = c

\* The closed box of a node holds p: |p.x - x| <= w/2 and |p.y - y| <= h/2.
InBox(q, p) == Near(p.x, q.x, q.w) /\ Near(p.y, q.y, q.h)

AllInBox(q) == \A k \in 1..Len(q.points.data) : InBox(q, q.points.data[k])

Count(s, p) == Cardinality({k \in 1..Len(s) : s[k] = p})

\* The two sequences hold the same points the same number of times.
SameBag(s, t) == Len(s) = Len(t) /\ \A p \in Pts : Count(s, p) = Count(t, p)

\* The largest number of identical points of a sequence.
MaxSame(s) ==
  LET cs == {Count(s, p) : p \in Pts}
  IN  CHOOSE c \in cs : \A e \in cs : e <= c

\* The sum of the sizes of the nodes L[lo..hi].
RECURSIVE SumRange(_, _, _)
SumRange(L, lo, hi) ==
  IF lo > hi THEN 0
  ELSE IF lo = hi THEN L[lo].size
  ELSE SumRange(L, lo, (lo + hi) \div 2)
       + SumRange(L, (lo + hi) \div 2 + 1, hi)

SumSizes(L) == SumRange(L, 1, Len(L))

\* The points of the nodes L[lo..hi], in order.
RECURSIVE DataRange(_, _, _)
DataRange(L, lo, hi) ==
  IF lo > hi THEN <<>>
  ELSE IF lo = hi THEN L[lo].points.data
  ELSE DataRange(L, lo, (lo + hi) \div 2)
       \o DataRange(L, (lo + hi) \div 2 + 1, hi)

LeafData(L) == DataRange(L, 1, Len(L))

IsLeaf(q) == q.child = NullChild

\* The nodes on which a call of quadtree_refine has just returned.
RefinedPaths ==
  IF pc = "overflow" THEN {}
  ELSE IF last.op = "refine" THEN {last.path}
  ELSE IF last.op = "refineall" THEN {<<n>> : n \in RootIdx}
  ELSE {}

Before(path) == NodeAt(last.forest, path)

After(path) == NodeAt(forest, path)

\* The nodes of the subtree of q, q first.
RECURSIVE SubNodes(_)
SubNodes(q) ==
  IF IsLeaf(q) THEN <<q>>
  ELSE <<q>> \o SubNodes(q.child[1]) \o SubNodes(q.child[2])
       \o SubNodes(q.child[3]) \o SubNodes(q.child[4])

\* The nodes of the forest.
RECURSIVE NodesFrom(_)
NodesFrom(n) ==
  IF n >= WIDTH * HEIGHT THEN <<>>
  ELSE SubNodes(forest[n + 1]) \o NodesFrom(n + 1)

Nodes == NodesFrom(0)

\* The number of levels below q.
RECURSIVE Height(_)
Height(q) ==
  IF IsLeaf(q) THEN 0
  ELSE LET hs == {Height(q.child[k]) : k \in 1..4}
       IN  1 + CHOOSE h \in hs : \A g \in hs : g <= h

\* A refinement of a leaf over the threshold has returned, two levels deep.
TwoLevels(path) ==
  /\ IsLeaf(Before(path))
  /\ Before(path).size > THRESH * N * N
  /\ ~IsLeaf(After(path))
  /\ \E k \in 1..4 : ~IsLeaf(After(path).child[k])

\* C1 (partition conservation): once quadtree_refine on a leaf has returned,
\* the sizes of the leaves quadtree_apply_leaves visits in its subtree sum to
\* the number of points the leaf held, and the leaves hold the same multiset.
C1_Conservation ==
  \A path \in RefinedPaths :
    IsLeaf(Before(path)) =>
      LET L == quadtree_apply_leaves(After(path))
      IN  /\ SumSizes(L) = Before(path).size
          /\ SameBag(LeafData(L), Before(path).points.data)

C1_Witness ==
  \E path \in RefinedPaths :
    /\ TwoLevels(path)
    /\ Cardinality({k \in 1..Len(quadtree_apply_leaves(After(path))) :
                      quadtree_apply_leaves(After(path))[k].size > 0}) >= 2

\* C2 (leaf threshold): once quadtree_refine on a leaf has returned, every
\* leaf of its subtree has size <= THRESH*N*N and every node of the subtree
\* that has children received more than THRESH*N*N points.
C2_LeafThreshold ==
  \A path \in RefinedPaths :
    IsLeaf(Before(path)) =>
      LET S == SubNodes(After(path))
      IN  \A k \in 1..Len(S) :
            IF IsLeaf(S[k]) THEN S[k].size <= THRESH * N * N
            ELSE SumSizes(quadtree_apply_leaves(S[k])) > THRESH * N * N

C2_Witness ==
  \E path \in RefinedPaths :
    /\ TwoLevels(path)
    /\ LET S == SubNodes(After(path))
       IN  \E k \in 1..Len(S) : IsLeaf(S[k]) /\ S[k].size = THRESH * N * N

\* C3 as stated (termination): quadtree_refine on a leaf returns for every
\* buffer in which no more than THRESH*N*N points are identical, points
\* outside the node's box included.
C3_Original ==
  last.op = "refine" =>
    (IsLeaf(Before(last.path))
     /\ MaxSame(Before(last.path).points.data) <= THRESH * N * N
       => pc # "overflow")

\* C3 as amended (termination): quadtree_refine on a leaf that is a root of
\* the forest or a node at most MaxDepth levels below one returns for every
\* buffer of points of the node's closed box in which no more than
\* THRESH*N*N points are identical, and does not return when more than
\* THRESH*N*N points are identical.
C3_Termination ==
  /\ last.op = "refine" =>
       LET b == Before(last.path)
       IN  /\ IsLeaf(b) /\ AllInBox(b) /\ MaxSame(b.points.data) <= THRESH * N * N
                => pc # "overflow"
           /\ IsLeaf(b) /\ MaxSame(b.points.data) > THRESH * N * N
                => pc = "overflow"
  /\ last.op = "refineall" =>
       ((\A n \in RootIdx :
           /\ IsLeaf(last.forest[n + 1])
           /\ AllInBox(last.forest[n + 1])
           /\ MaxSame(last.forest[n + 1].points.data) <= THRESH * N * N)
         => pc # "overflow")

\* A refinement of points of the closed box that are neighbouring doubles
\* has returned, after more than 50 levels.
C3_Witness ==
  /\ last.op = "refine"
  /\ pc # "overflow"
  /\ TwoLevels(last.path)
  /\ AllInBox(Before(last.path))
  /\ Height(After(last.path)) > 50

\* The child centres of q are the exact sums x +/- w/4, y +/- h/4, and the
\* child extents the exact halves.
ExactChildren(q) ==
  /\ Len(q.child) = 4
  /\ q.w - 2 >= -2 * LimbBits /\ q.h - 2 >= -2 * LimbBits
  /\ \A i \in 0..1, j \in 0..1 :
       LET c == q.child[j * 2 + i + 1]
       IN  /\ c.w = q.w - 1 /\ c.h = q.h - 1
           /\ c.x = (IF i = 1 THEN Plus(q.x, Pow2(q.w - 2))
                     ELSE Minus(q.x, Pow2(q.w - 2)))
           /\ c.y = (IF j = 1 THEN Plus(q.y, Pow2(q.h - 2))
                     ELSE Minus(q.y, Pow2(q.h - 2)))

\* The edges of the box of a node whose half-extents are on the grid.
Lo(c, e) == Minus(c, Pow2(e - 1))

Hi(c, e) == Plus(c, Pow2(e - 1))

\* The interiors of the boxes of two nodes are disjoint.
Apart(a, b) ==
  \/ Ge(Lo(b.x, b.w), Hi(a.x, a.w)) \/ Ge(Lo(a.x, a.w), Hi(b.x, b.w))
  \/ Ge(Lo(b.y, b.h), Hi(a.y, a.h)) \/ Ge(Lo(a.y, a.h), Hi(b.y, b.h))

\* The box of c lies in the box of q.
Within(c, q) ==
  /\ Ge(Lo(c.x, c.w), Lo(q.x, q.w)) /\ Ge(Hi(q.x, q.w), Hi(c.x, c.w))
  /\ Ge(Lo(c.y, c.h), Lo(q.y, q.h)) /\ Ge(Hi(q.y, q.h), Hi(c.y, c.h))

\* C4 (geometric tiling): every node with children has 4 children of half
\* its width and height, child j*2+i centred at (x + (2i-1)w/4,
\* y + (2j-1)h/4), with pairwise disjoint interiors and the parent's box as
\* their union (they lie in it, apart, and are 4 boxes of a quarter of it).
C4_Tiling ==
  \A n \in 1..Len(Nodes) :
    LET q == Nodes[n]
    IN  ~IsLeaf(q) =>
          /\ ExactChildren(q)
          /\ \A k \in 1..4 : Within(q.child[k], q)
          /\ \A k \in 1..4, l \in 1..4 :
               k # l => Apart(q.child[k], q.child[l])

\* C5 (exclusivity): in every state between calls, no node has both
\* children and a non-empty point buffer.
C5_Exclusive ==
  \A n \in 1..Len(Nodes) :
    LET q == Nodes[n]
    IN  ~(q.child # NullChild /\ (q.size > 0 \/ q.points.alloc))

\* C6 (teardown completeness): after quadtree_add calls on leaf roots,
\* quadtree_refine on every root and quadtree_free on every root, no
\* allocation made by quadtree_add or quadtree_refine is live.
C6_Teardown ==
  pc = "done" /\ proper => mem.bufs = 0 /\ mem.kids = 0

\* C7 (below-threshold refine is a no-op): quadtree_refine on a leaf of
\* size <= THRESH*N*N returns and leaves the node and the heap unchanged.
C7_NoOp ==
  last.op = "refine" =>
    LET b == Before(last.path)
    IN  IsLeaf(b) /\ b.size <= THRESH * N * N =>
          /\ pc # "overflow"
          /\ After(last.path) = b
          /\ forest = last.forest
          /\ mem = last.mem

C7_Witness ==
  /\ last.op = "refine"
  /\ IsLeaf(Before(last.path))
  /\ Before(last.path).size = THRESH * N * N
  /\ pc = "build"

\* The quadrant the claim gives a point of a node.
ClaimedQuadrant(q, p) ==
  (IF Gt(p.y, q.y) THEN 2 ELSE 0) + (IF Gt(p.x, q.x) THEN 1 ELSE 0)

\* The points held by the leaves below q, in the order of the leaves.
Below(q) == LeafData(quadtree_apply_leaves(q))

\* C8 (deterministic quadrant assignment): when quadtree_refine subdivides a
\* node, the points that end below child j*2+i are exactly the points of the
\* node with i = (p.x > x) and j = (p.y > y); a point on a centre line goes
\* to the lower index.  Checked for the leaf the call was made on, against
\* its buffer, and for every node the recursion subdivided below it.
C8_Quadrant ==
  \A path \in RefinedPaths :
    LET b == Before(path)
        S == SubNodes(After(path))
    IN  IsLeaf(b) /\ ~IsLeaf(After(path)) =>
          /\ \A k \in 0..3 :
               SameBag(Below(After(path).child[k + 1]),
                       SelectSeq(b.points.data,
                                 LAMBDA p : ClaimedQuadrant(b, p) = k))
          /\ \A n \in 1..Len(S) :
               ~IsLeaf(S[n]) =>
                 \A k \in 0..3 :
                   SameBag(Below(S[n].child[k + 1]),
                           SelectSeq(Below(S[n]),
                                     LAMBDA p : ClaimedQuadrant(S[n], p) = k))

\* A call has subdivided a node that held a point on its vertical centre
\* line and a point above its horizontal one.
C8_Witness ==
  \E path \in RefinedPaths :
    /\ IsLeaf(Before(path))
    /\ LET S == SubNodes(After(path))
       IN  \E n \in 1..Len(S) :
             /\ ~IsLeaf(S[n])
             /\ \E k \in 1..Len(Below(S[n])) :
                  /\ Below(S[n])[k].x = S[n].x
                  /\ Gt(Below(S[n])[k].y, S[n].y)

\* C9 (buffer capacity safety): the capacity of every buffer is >= size and
\* a multiple of N reached in steps of N; a single quadtree_add grows the
\* capacity by exactly N, and only when it finds size == capacity, which is
\* when size % N == 0; no append writes at or past the capacity.
C9_Capacity ==
  /\ ~mem.oob
  /\ \A n \in 1..Len(Nodes) :
       LET q == Nodes[n]
       IN  /\ q.points.cap >= q.size
           /\ Len(q.points.data) = q.size
           /\ q.points.cap % N = 0
           /\ q.points.cap < q.size + N
           /\ ~q.points.alloc => q.points.cap = 0
  /\ last.op \in {"add", "sample"} =>
       LET b == Before(last.path)
           a == After(last.path)
       IN  /\ a.size = b.size + 1
           /\ a.points.cap \in {b.points.cap, b.points.cap + N}
           /\ (a.points.cap # b.points.cap) = (b.size = b.points.cap)
           /\ (b.size = b.points.cap) = (b.size % N = 0)

C9_Witness ==
  /\ last.op = "add"
  /\ Before(last.path).size = THRESH * N * N
  /\ Before(last.path).points.cap = Before(last.path).size
  /\ After(last.path).points.cap = Before(last.path).points.cap + N
  /\ \E n \in 1..Len(Nodes) : ~IsLeaf(Nodes[n])

\* C10 (containment): if every point of a leaf lies in its closed box when
\* quadtree_refine is called on it, every leaf of the subtree afterwards
\* holds only points of its own closed box; and the driver adds a point
\* with transformed coordinates in [i + 0.5, i + 1.5) x [j + 0.5, j + 1.5)
\* to the root centred at (i + 1, j + 1), a box that holds it.
C10_Containment ==
  /\ \A path \in RefinedPaths :
       IsLeaf(Before(path)) /\ AllInBox(Before(path)) =>
         LET S == SubNodes(After(path))
         IN  \A k \in 1..Len(S) : IsLeaf(S[k]) => AllInBox(S[k])
  /\ last.op \in {"sample", "pixel"} =>
       LET a == After(last.path)
           p == last.pt
       IN  /\ a.points.data[a.size] = p
           /\ a.w = 0 /\ a.h = 0
           /\ Ge(p.x, Minus(a.x, Half)) /\ Gt(Plus(a.x, Half), p.x)
           /\ Ge(p.y, Minus(a.y, Half)) /\ Gt(Plus(a.y, Half), p.y)
           /\ InBox(a, p)

====
